---- MODULE Spec2Model ----
(***************************************************************************)
(* quick-oxibooks-sql: the runtime query builder (src/src/lib.rs) and the  *)
(* qb_sql! procedural macro (src/quick-oxibooks-sql-macro/src/lib.rs).     *)
(*                                                                         *)
(* Rust Strings are TLA+ strings; TLC evaluates Len, \o, SubSeq, Head and  *)
(* Tail on them, so rendering is computed character for character.         *)
(* Option<T> is a sequence of length 0 (None) or 1 (Some).                 *)
(***************************************************************************)
EXTENDS Integers, Sequences, FiniteSets, TLC

VARIABLES
    query,   \* Option<Query<Customer>>: the builder object, if one exists
    call,    \* the most recent builder call and its arguments
    out,     \* Option<String>: the value returned by the latest query_string()
    text,    \* the token stream handed to qb_sql!
    ids,     \* the runtime sequence bound to the variable `ids` at the call site
    ast,     \* Option<SqlQuery>: what the macro's parser returned
    result,  \* outcome of the qb_sql! invocation
    snake,   \* the identifier text handed to to_camel_case
    ident    \* what to_camel_case did with it: a syn::Ident, or a panic

vars == <<query, call, out, text, ids, ast, result, snake, ident>>

(***************************************************************************)
(* Bounds of the model.                                                    *)
(***************************************************************************)
\* builder calls (field, condition, order) made directly on one Query
MaxOps == 3
\* length of the runtime sequence bound to `ids`
MaxSeq == 3
\* length of the identifiers handed to to_camel_case
MaxWord == 5

(***************************************************************************)
(* String helpers.                                                         *)
(***************************************************************************)
Char(s, i) == SubSeq(s, i, i)

\* s has t at position i
HasAt(s, t, i) == i >= 1 /\ i + Len(t) - 1 <= Len(s) /\ SubSeq(s, i, i + Len(t) - 1) = t

\* first position >= i at which t occurs in s, 0 when there is none
RECURSIVE Find(_, _, _)
Find(s, t, i) ==
    IF i + Len(t) - 1 > Len(s) THEN 0
    ELSE IF HasAt(s, t, i) THEN i
    ELSE Find(s, t, i + 1)

Contains(s, t) == Find(s, t, 1) > 0

Digit(d) ==
    CASE d = 0 -> "0" [] d = 1 -> "1" [] d = 2 -> "2" [] d = 3 -> "3"
      [] d = 4 -> "4" [] d = 5 -> "5" [] d = 6 -> "6" [] d = 7 -> "7"
      [] d = 8 -> "8" [] d = 9 -> "9"

\* format!("{}", n) for an unsigned integer
RECURSIVE u32_to_string(_)
u32_to_string(n) ==
    IF n < 10 THEN Digit(n) ELSE u32_to_string(n \div 10) \o Digit(n % 10)

(***************************************************************************)
(* The builder: struct Query and its operations.                           *)
(***************************************************************************)
None == <<>>
Some(x) == <<x>>

\* QB::name() of the target type of the tests, quickbooks_types::Customer
QB_name == "Customer"

Query_new == [fields |-> <<>>, condition |-> <<>>, order |-> <<>>, limit |-> None]

\* a field call that skips a name already selected
Query_field_dedup(self, f) ==
    IF \E i \in 1..Len(self.fields) : self.fields[i] = f THEN self
    ELSE [self EXCEPT !.fields = Append(@, f)]

Query_field(self, f) == [self EXCEPT !.fields = Append(@, f)]

Query_condition(self, c) == [self EXCEPT !.condition = Append(@, c)]

Query_order(self, f, o) == [self EXCEPT !.order = Append(@, [field |-> f, order |-> o])]

\* a limit call that keeps the offset of an earlier call when given none
Query_limit_keep_offset(self, number, offset) ==
    [self EXCEPT !.limit =
        Some([number |-> number,
              offset |-> IF offset = None /\ self.limit # None
                         THEN self.limit[1].offset ELSE offset])]

Query_limit(self, number, offset) ==
    [self EXCEPT !.limit = Some([number |-> number, offset |-> offset])]

Limit_extend_query(l, q) ==
    LET q1 == q \o " LIMIT " \o u32_to_string(l.number)
    IN IF l.offset # None THEN q1 \o " OFFSET " \o u32_to_string(l.offset[1]) ELSE q1

\* an order term without the space before its direction
OrderClause_extend_query_glued(o, q) ==
    q \o " " \o o.field
      \o (CASE o.order = "Asc" -> "ASC" [] o.order = "Desc" -> "DESC")

OrderClause_extend_query(o, q) ==
    q \o " " \o o.field \o " "
      \o (CASE o.order = "Asc" -> "ASC" [] o.order = "Desc" -> "DESC")

op_str(operator) ==
    CASE operator = "In" -> "IN"
      [] operator = "Like" -> "LIKE"
      [] operator = "Equal" -> "="
      [] operator = "Less" -> "<"
      [] operator = "Greater" -> ">"
      [] operator = "LessEqual" -> "<="
      [] operator = "GreaterEqual" -> ">="

\* an In list joined by "," alone
RECURSIVE in_values_loop_tight(_, _, _)
in_values_loop_tight(values, i, q) ==
    IF i > Len(values) THEN q
    ELSE in_values_loop_tight(values, i + 1,
             (IF i > 1 THEN q \o "," ELSE q) \o "'" \o values[i] \o "'")

\* the loop over self.values of an In clause
RECURSIVE in_values_loop(_, _, _)
in_values_loop(values, i, q) ==
    IF i > Len(values) THEN q
    ELSE in_values_loop(values, i + 1,
             (IF i > 1 THEN q \o ", " ELSE q) \o "'" \o values[i] \o "'")

WhereClause_extend_query(c, q) ==
    IF c.operator = "In"
    THEN in_values_loop(c.values, 1, q \o " " \o c.field \o " IN (") \o ")"
    ELSE q \o " " \o c.field \o " " \o op_str(c.operator) \o " '" \o c.values[1] \o "'"

RECURSIVE fields_loop(_, _, _)
fields_loop(fields, i, q) ==
    IF i > Len(fields) THEN q
    ELSE fields_loop(fields, i + 1, (IF i > 1 THEN q \o ", " ELSE q) \o fields[i])

RECURSIVE condition_loop(_, _, _)
condition_loop(cs, i, q) ==
    IF i > Len(cs) THEN q
    ELSE condition_loop(cs, i + 1,
             WhereClause_extend_query(cs[i], IF i > 1 THEN q \o " and" ELSE q))

RECURSIVE order_loop(_, _, _)
order_loop(os, i, q) ==
    IF i > Len(os) THEN q
    ELSE order_loop(os, i + 1,
             OrderClause_extend_query(os[i], IF i > 1 THEN q \o "," ELSE q))

\* a rendering that emits the limit before the order terms
Query_query_string_limit_first(self) ==
    LET q1 == IF self.fields = <<>> THEN "select *"
              ELSE fields_loop(self.fields, 1, "select ")
        q2 == q1 \o " from " \o QB_name
        q3 == IF self.condition # <<>>
              THEN condition_loop(self.condition, 1, q2 \o " where") ELSE q2
        q4 == IF self.limit # None THEN Limit_extend_query(self.limit[1], q3) ELSE q3
    IN IF self.order # <<>> THEN order_loop(self.order, 1, q4 \o " order by") ELSE q4

Query_query_string(self) ==
    LET q1 == IF self.fields = <<>> THEN "select *"
              ELSE fields_loop(self.fields, 1, "select ")
        q2 == q1 \o " from " \o QB_name
        q3 == IF self.condition # <<>>
              THEN condition_loop(self.condition, 1, q2 \o " where") ELSE q2
        q4 == IF self.order # <<>>
              THEN order_loop(self.order, 1, q3 \o " order by") ELSE q3
    IN IF self.limit # None THEN Limit_extend_query(self.limit[1], q4) ELSE q4

(***************************************************************************)
(* The macro's input: a token stream.  A token is the text of one Rust     *)
(* token; ">=" reaches the macro as the two punctuation tokens ">" "=".    *)
(***************************************************************************)
Letters ==
    { "a", "b", "c", "d", "e", "f", "g", "h", "i", "j", "k", "l", "m", "n", "o",
      "p", "q", "r", "s", "t", "u", "v", "w", "x", "y", "z",
      "A", "B", "C", "D", "E", "F", "G", "H", "I", "J", "K", "L", "M", "N", "O",
      "P", "Q", "R", "S", "T", "U", "V", "W", "X", "Y", "Z" }

DigitChars == {"0", "1", "2", "3", "4", "5", "6", "7", "8", "9"}

\* the reserved words syn's Ident parser refuses, the lone underscore included
RustKeywords ==
    { "_", "abstract", "as", "async", "await", "become", "box", "break",
      "const", "continue", "crate", "do", "dyn", "else", "enum", "extern",
      "false", "final", "fn", "for", "if", "impl", "in", "let", "loop", "macro",
      "match", "mod", "move", "mut", "override", "priv", "pub", "ref", "return",
      "self", "Self", "static", "struct", "super", "trait", "true", "try",
      "type", "typeof", "unsafe", "unsized", "use", "virtual", "where", "while",
      "yield" }

\* the token at position p, "" past the end of the stream
Tok(ts, p) == IF p >= 1 /\ p <= Len(ts) THEN ts[p] ELSE ""

IsWord(t) == t # "" /\ (Char(t, 1) \in Letters \/ Char(t, 1) = "_")

IsNumLit(t) == t # "" /\ Char(t, 1) \in DigitChars

IsIntLit(t) == IsNumLit(t) /\ ~Contains(t, ".")

IsFloatLit(t) == IsNumLit(t) /\ Contains(t, ".")

IsStrLit(t) == Len(t) >= 2 /\ Char(t, 1) = "\"" /\ Char(t, Len(t)) = "\""

Fail(p) == [ok |-> FALSE, pos |-> p]

\* input.parse::<Ident>()
Ident_parse(ts, p) ==
    IF IsWord(Tok(ts, p)) /\ Tok(ts, p) \notin RustKeywords
    THEN [ok |-> TRUE, pos |-> p + 1, val |-> Tok(ts, p)]
    ELSE Fail(p)

\* input.parse::<syn::Expr>() on the expressions of the model's queries: a
\* literal or a variable name, one token
Expr_parse(ts, p) ==
    LET t == Tok(ts, p)
    IN IF IsNumLit(t) \/ IsStrLit(t) \/ (IsWord(t) /\ t \notin RustKeywords)
       THEN [ok |-> TRUE, pos |-> p + 1, val |-> t]
       ELSE Fail(p)

\* Punctuated::<Ident, Token![,]>::parse_separated_nonempty
RECURSIVE Ident_list_rest(_, _, _)
Ident_list_rest(ts, p, acc) ==
    IF Tok(ts, p) # "," THEN [ok |-> TRUE, pos |-> p, val |-> acc]
    ELSE LET r == Ident_parse(ts, p + 1)
         IN IF ~r.ok THEN Fail(r.pos)
            ELSE Ident_list_rest(ts, r.pos, Append(acc, r.val))

Ident_list_parse(ts, p) ==
    LET r == Ident_parse(ts, p)
    IN IF ~r.ok THEN Fail(r.pos) ELSE Ident_list_rest(ts, r.pos, <<r.val>>)

\* Punctuated::<syn::Expr, Token![,]>::parse_separated_nonempty
RECURSIVE Expr_list_rest(_, _, _)
Expr_list_rest(ts, p, acc) ==
    IF Tok(ts, p) # "," THEN [ok |-> TRUE, pos |-> p, val |-> acc]
    ELSE LET r == Expr_parse(ts, p + 1)
         IN IF ~r.ok THEN Fail(r.pos)
            ELSE Expr_list_rest(ts, r.pos, Append(acc, r.val))

Expr_list_parse(ts, p) ==
    LET r == Expr_parse(ts, p)
    IN IF ~r.ok THEN Fail(r.pos) ELSE Expr_list_rest(ts, r.pos, <<r.val>>)

Operator_parse(ts, p) ==
    LET t == Tok(ts, p)
    IN IF t = "=" THEN [ok |-> TRUE, pos |-> p + 1, val |-> "Equal"]
       ELSE IF t = "<"
       THEN IF Tok(ts, p + 1) = "="
            THEN [ok |-> TRUE, pos |-> p + 2, val |-> "LessEqual"]
            ELSE [ok |-> TRUE, pos |-> p + 1, val |-> "Less"]
       ELSE IF t = ">"
       THEN IF Tok(ts, p + 1) = "="
            THEN [ok |-> TRUE, pos |-> p + 2, val |-> "GreaterEqual"]
            ELSE [ok |-> TRUE, pos |-> p + 1, val |-> "Greater"]
       ELSE IF t = "in" THEN [ok |-> TRUE, pos |-> p + 1, val |-> "In"]
       ELSE IF t = "like" THEN [ok |-> TRUE, pos |-> p + 1, val |-> "Like"]
       ELSE Fail(p)

\* syn::parenthesized!(content in input) followed by the parse of the content:
\* the group is the tokens up to the closing delimiter, and tokens the content
\* parser leaves unread are an error
Paren_list_parse(ts, p) ==
    LET close == Find(ts, <<")">>, p)
        content == SubSeq(ts, p + 1, close - 1)
        r == Expr_list_parse(content, 1)
    IN IF Tok(ts, p) # "(" \/ close = 0 THEN Fail(p)
       ELSE IF ~r.ok \/ r.pos # Len(content) + 1 THEN Fail(p + r.pos)
       ELSE [ok |-> TRUE, pos |-> close + 1, val |-> r.val]

\* let operator = Operator::parse(input)?
condition_operator(f, o) ==
    IF ~o.ok THEN Fail(o.pos)
    ELSE [ok |-> TRUE, pos |-> o.pos, val |-> [field |-> f.val, operator |-> o.val]]

\* vec![input.parse()?]
single_value(e) ==
    IF e.ok THEN [ok |-> TRUE, pos |-> e.pos, val |-> <<e.val>>] ELSE Fail(e.pos)

\* Ok(Condition { field, operator, values })
condition_values(c, v) ==
    IF ~v.ok THEN Fail(v.pos)
    ELSE [ok |-> TRUE, pos |-> v.pos,
          val |-> [field |-> c.val.field, operator |-> c.val.operator, values |-> v.val]]

condition_after_operator(ts, c) ==
    IF ~c.ok THEN c
    ELSE condition_values(c, IF c.val.operator = "In"
                             THEN Paren_list_parse(ts, c.pos)
                             ELSE single_value(Expr_parse(ts, c.pos)))

condition_after_field(ts, f) ==
    IF ~f.ok THEN Fail(f.pos)
    ELSE condition_after_operator(ts, condition_operator(f, Operator_parse(ts, f.pos)))

Condition_parse(ts, p) == condition_after_field(ts, Ident_parse(ts, p))

\* a loop that puts each further condition in front of the earlier ones
RECURSIVE Condition_rest_front(_, _, _)
Condition_rest_front(ts, p, acc) ==
    IF Tok(ts, p) # "and" THEN [ok |-> TRUE, pos |-> p, val |-> acc]
    ELSE LET r == Condition_parse(ts, p + 1)
         IN IF ~r.ok THEN Fail(r.pos)
            ELSE Condition_rest_front(ts, r.pos, <<r.val>> \o acc)

\* the loop `while input.peek(kw::and)`
RECURSIVE Condition_rest(_, _, _)
Condition_rest(ts, p, acc) ==
    IF Tok(ts, p) # "and" THEN [ok |-> TRUE, pos |-> p, val |-> acc]
    ELSE LET r == Condition_parse(ts, p + 1)
         IN IF ~r.ok THEN Fail(r.pos)
            ELSE Condition_rest(ts, r.pos, Append(acc, r.val))

OrderField_parse(ts, p) ==
    LET f == Ident_parse(ts, p)
    IN IF ~f.ok THEN Fail(f.pos)
       ELSE IF Tok(ts, f.pos) = "asc"
       THEN [ok |-> TRUE, pos |-> f.pos + 1,
             val |-> [field |-> f.val, direction |-> Some("Asc")]]
       ELSE IF Tok(ts, f.pos) = "desc"
       THEN [ok |-> TRUE, pos |-> f.pos + 1,
             val |-> [field |-> f.val, direction |-> Some("Desc")]]
       ELSE [ok |-> TRUE, pos |-> f.pos, val |-> [field |-> f.val, direction |-> None]]

\* Punctuated::<OrderField, Token![,]>::parse_separated_nonempty
RECURSIVE OrderField_rest(_, _, _)
OrderField_rest(ts, p, acc) ==
    IF Tok(ts, p) # "," THEN [ok |-> TRUE, pos |-> p, val |-> acc]
    ELSE LET r == OrderField_parse(ts, p + 1)
         IN IF ~r.ok THEN Fail(r.pos)
            ELSE OrderField_rest(ts, r.pos, Append(acc, r.val))

OrderBy_parse(ts, p) ==
    IF Tok(ts, p) # "order" THEN Fail(p)
    ELSE IF Tok(ts, p + 1) # "by" THEN Fail(p + 1)
    ELSE LET r == OrderField_parse(ts, p + 2)
         IN IF ~r.ok THEN Fail(r.pos) ELSE OrderField_rest(ts, r.pos, <<r.val>>)

LimitClause_parse(ts, p) ==
    IF Tok(ts, p) # "limit" THEN Fail(p)
    ELSE IF ~IsIntLit(Tok(ts, p + 1)) THEN Fail(p + 1)
    ELSE IF Tok(ts, p + 2) = "offset"
    THEN LET e == Expr_parse(ts, p + 3)
         IN IF ~e.ok THEN Fail(e.pos)
            ELSE [ok |-> TRUE, pos |-> e.pos,
                  val |-> [number |-> Tok(ts, p + 1), offset |-> Some(e.val)]]
    ELSE [ok |-> TRUE, pos |-> p + 2,
          val |-> [number |-> Tok(ts, p + 1), offset |-> None]]

Ok(p, v) == [ok |-> TRUE, pos |-> p, val |-> v]

\* select, then `*` or a list of identifiers
parse_select(ts) ==
    IF Tok(ts, 1) # "select" THEN Fail(1)
    ELSE IF Tok(ts, 2) = "*" THEN Ok(3, [all |-> TRUE, names |-> <<>>])
    ELSE LET l == Ident_list_parse(ts, 2)
         IN IF l.ok THEN Ok(l.pos, [all |-> FALSE, names |-> l.val]) ELSE Fail(l.pos)

item_type_parsed(r, ty) ==
    IF ~ty.ok THEN Fail(ty.pos)
    ELSE Ok(ty.pos, [fields |-> r.val, item_type |-> ty.val])

\* from, then input.parse::<Type>() on a type named by one identifier
parse_from(ts, r) ==
    IF ~r.ok THEN r
    ELSE IF Tok(ts, r.pos) # "from" THEN Fail(r.pos)
    ELSE item_type_parsed(r, Ident_parse(ts, r.pos + 1))

conditions_parsed(r, cs) ==
    IF ~cs.ok THEN Fail(cs.pos)
    ELSE Ok(cs.pos, [fields |-> r.val.fields, item_type |-> r.val.item_type,
                     conditions |-> cs.val])

first_condition(ts, c1) ==
    IF ~c1.ok THEN Fail(c1.pos) ELSE Condition_rest(ts, c1.pos, <<c1.val>>)

\* where, the first condition, the conditions behind `and`
parse_where(ts, r) ==
    IF ~r.ok THEN r
    ELSE IF Tok(ts, r.pos) # "where" THEN Fail(r.pos)
    ELSE conditions_parsed(r, first_condition(ts, Condition_parse(ts, r.pos + 1)))

order_by_parsed(r, p, ob) ==
    Ok(p, [fields |-> r.val.fields, item_type |-> r.val.item_type,
           conditions |-> r.val.conditions, order_by |-> ob])

some_order_by(r, o) ==
    IF ~o.ok THEN Fail(o.pos) ELSE order_by_parsed(r, o.pos, Some(o.val))

\* the optional ORDER BY
parse_order_by(ts, r) ==
    IF ~r.ok THEN r
    ELSE IF Tok(ts, r.pos) = "order" THEN some_order_by(r, OrderBy_parse(ts, r.pos))
    ELSE order_by_parsed(r, r.pos, None)

limit_parsed(r, p, lm) ==
    Ok(p, [fields |-> r.val.fields, item_type |-> r.val.item_type,
           conditions |-> r.val.conditions, order_by |-> r.val.order_by,
           limit |-> lm])

some_limit(r, l) ==
    IF ~l.ok THEN Fail(l.pos) ELSE limit_parsed(r, l.pos, Some(l.val))

\* the optional LIMIT
parse_limit(ts, r) ==
    IF ~r.ok THEN r
    ELSE IF Tok(ts, r.pos) = "limit" THEN some_limit(r, LimitClause_parse(ts, r.pos))
    ELSE limit_parsed(r, r.pos, None)

\* impl Parse for SqlQuery
SqlQuery_parse(ts) ==
    parse_limit(ts, parse_order_by(ts, parse_where(ts, parse_from(ts, parse_select(ts)))))

\* a macro entry that ignores the tokens the parser left unread
parse_macro_input_lenient(ts) == SqlQuery_parse(ts)

\* an error when tokens are left after the parse
all_consumed(ts, r) == IF r.ok /\ r.pos # Len(ts) + 1 THEN Fail(r.pos) ELSE r

\* syn::parse_macro_input!(input as SqlQuery)
parse_macro_input(ts) == all_consumed(ts, SqlQuery_parse(ts))

(***************************************************************************)
(* The macro's expansion and the code it generates.                        *)
(***************************************************************************)
\* char::to_uppercase on ASCII
to_uppercase(c) ==
    CASE c = "a" -> "A" [] c = "b" -> "B" [] c = "c" -> "C" [] c = "d" -> "D"
      [] c = "e" -> "E" [] c = "f" -> "F" [] c = "g" -> "G" [] c = "h" -> "H"
      [] c = "i" -> "I" [] c = "j" -> "J" [] c = "k" -> "K" [] c = "l" -> "L"
      [] c = "m" -> "M" [] c = "n" -> "N" [] c = "o" -> "O" [] c = "p" -> "P"
      [] c = "q" -> "Q" [] c = "r" -> "R" [] c = "s" -> "S" [] c = "t" -> "T"
      [] c = "u" -> "U" [] c = "v" -> "V" [] c = "w" -> "W" [] c = "x" -> "X"
      [] c = "y" -> "Y" [] c = "z" -> "Z" [] OTHER -> c

\* s.split('_'): the segments between the separators, empty ones included
RECURSIVE split(_, _, _)
split(s, i, word) ==
    IF i > Len(s) THEN <<word>>
    ELSE IF Char(s, i) = "_" THEN <<word>> \o split(s, i + 1, "")
    ELSE split(s, i + 1, word \o Char(s, i))

\* the closure mapped over the segments
capitalize(word) ==
    IF word = "" THEN "" ELSE to_uppercase(Char(word, 1)) \o SubSeq(word, 2, Len(word))

RECURSIVE collect(_, _)
collect(words, i) ==
    IF i > Len(words) THEN "" ELSE capitalize(words[i]) \o collect(words, i + 1)

\* syn::Ident::new accepts a string only if it is an identifier
RECURSIVE IsIdentTail(_, _)
IsIdentTail(s, i) ==
    i > Len(s)
    \/ (/\ (Char(s, i) \in Letters \/ Char(s, i) \in DigitChars \/ Char(s, i) = "_")
        /\ IsIdentTail(s, i + 1))

IsIdentString(s) == IsWord(s) /\ IsIdentTail(s, 2)

\* to_camel_case: Some(identifier), or None where Ident::new panics
to_camel_case(s) ==
    LET camel == collect(split(s, 1, ""), 1)
    IN IF IsIdentString(camel) THEN Some(camel) ELSE None

\* the public fields of quickbooks_types::Customer that the tests use
Attributes(item_type) ==
    IF item_type = "Customer" THEN {"id", "display_name", "balance", "title"} ELSE {}

\* the local variables of the tests, each with the literal that initialises it
Binding(name) ==
    CASE name = "balance_min" -> "1000.0"
      [] name = "offset_val" -> "5"
      [] name = "title1" -> "\"Mr\""
      [] name = "title2" -> "\"Mrs\""
      [] OTHER -> ""

\* the Rust type of an expression at the call site
TypeOf(e) ==
    LET lit == IF IsWord(e) THEN Binding(e) ELSE e
    IN IF e = "ids" THEN "vec"
       ELSE IF IsIntLit(lit) THEN "int"
       ELSE IF IsFloatLit(lit) THEN "float"
       ELSE IF IsStrLit(lit) THEN "str"
       ELSE "unbound"

DigitVal(c) ==
    CASE c = "0" -> 0 [] c = "1" -> 1 [] c = "2" -> 2 [] c = "3" -> 3 [] c = "4" -> 4
      [] c = "5" -> 5 [] c = "6" -> 6 [] c = "7" -> 7 [] c = "8" -> 8 [] c = "9" -> 9

\* the value of an integer literal
RECURSIVE int_value(_, _, _)
int_value(s, i, acc) ==
    IF i > Len(s) THEN acc ELSE int_value(s, i + 1, acc * 10 + DigitVal(Char(s, i)))

RECURSIVE trim_zeros(_)
trim_zeros(s) ==
    IF s # "" /\ Char(s, Len(s)) = "0" THEN trim_zeros(SubSeq(s, 1, Len(s) - 1)) ELSE s

\* a Display that keeps the literal's fraction
f64_to_string_verbatim(lit) == lit

\* Display of an f64 written as <digits>.<digits>: no fraction when it is zero
f64_to_string(lit) ==
    LET dot == Find(lit, ".", 1)
        whole == u32_to_string(int_value(SubSeq(lit, 1, dot - 1), 1, 0))
        frac == trim_zeros(SubSeq(lit, dot + 1, Len(lit)))
    IN IF frac = "" THEN whole ELSE whole \o "." \o frac

\* <expr>.to_string() in the generated code
to_string(e) ==
    LET lit == IF IsWord(e) THEN Binding(e) ELSE e
    IN IF IsIntLit(lit) THEN u32_to_string(int_value(lit, 1, 0))
       ELSE IF IsFloatLit(lit) THEN f64_to_string(lit)
       ELSE SubSeq(lit, 2, Len(lit) - 1)

\* a spread that collects the elements last to first
spread_reversed(seq) == [i \in 1..Len(seq) |-> u32_to_string(seq[Len(seq) + 1 - i])]

\* `for v in <expr> { vals.push(v.to_string()) }` over the sequence `ids`
spread(seq) == [i \in 1..Len(seq) |-> u32_to_string(seq[i])]

\* vec![#(#values.to_string()),*]
each_to_string(values) == [i \in 1..Len(values) |-> to_string(values[i])]

\* a collection that leaves the order fields out
all_fields_unordered(self) ==
    self.fields.names
    \o [i \in 1..Len(self.conditions) |-> self.conditions[i].field]

\* all_fields: every identifier the query references
all_fields(self) ==
    self.fields.names
    \o [i \in 1..Len(self.conditions) |-> self.conditions[i].field]
    \o (IF self.order_by # None
        THEN [i \in 1..Len(self.order_by[1]) |-> self.order_by[1][i].field]
        ELSE <<>>)

\* the generated `fn _check_fields(v: #item_type) { let _ = v.#all_fields; }`
\* compiles only if every identifier is a field of the type
type_check(self) ==
    \A i \in 1..Len(all_fields(self)) : all_fields(self)[i] \in Attributes(self.item_type)

\* the value expressions have the types the generated code needs
values_check(c) ==
    IF c.operator = "In" /\ Len(c.values) = 1
    THEN TypeOf(c.values[1]) = "vec"
    ELSE \A i \in 1..Len(c.values) : TypeOf(c.values[i]) \in {"int", "float", "str"}

limit_check(self) ==
    self.limit = None \/ self.limit[1].offset = None
    \/ TypeOf(self.limit[1].offset[1]) = "int"

\* the macro panics where to_camel_case does; the generated code is rejected
\* by the compiler where a field, a type or a value does not fit
compiles(self) ==
    /\ self.item_type = "Customer"
    /\ \A i \in 1..Len(all_fields(self)) : to_camel_case(all_fields(self)[i]) # None
    /\ type_check(self)
    /\ \A i \in 1..Len(self.conditions) : values_check(self.conditions[i])
    /\ limit_check(self)

\* #field_code
RECURSIVE field_code(_, _, _)
field_code(names, i, q) ==
    IF i > Len(names) THEN q
    ELSE field_code(names, i + 1, Query_field(q, to_camel_case(names[i])[1]))

\* values_code
values_code(c, seq) ==
    IF c.operator = "In" /\ Len(c.values) = 1 THEN spread(seq)
    ELSE each_to_string(c.values)

\* #(#condition_code)*
RECURSIVE condition_code(_, _, _, _)
condition_code(cs, i, seq, q) ==
    IF i > Len(cs) THEN q
    ELSE condition_code(cs, i + 1, seq,
             Query_condition(q, [field |-> to_camel_case(cs[i].field)[1],
                                 operator |-> cs[i].operator,
                                 values |-> values_code(cs[i], seq)]))

direction_code(o) == IF o.direction = Some("Desc") THEN "Desc" ELSE "Asc"

\* #order_code
RECURSIVE order_code(_, _, _)
order_code(os, i, q) ==
    IF i > Len(os) THEN q
    ELSE order_code(os, i + 1,
             Query_order(q, to_camel_case(os[i].field)[1], direction_code(os[i])))

\* #limit_code
limit_code(l, q) ==
    IF l = None THEN q
    ELSE Query_limit(q, int_value(l[1].number, 1, 0),
                     IF l[1].offset = None THEN None
                     ELSE Some(int_value(to_string(l[1].offset[1]), 1, 0)))

\* SqlQuery::expand and the run of the block it generates
SqlQuery_expand(self, seq) ==
    LET q1 == field_code(self.fields.names, 1, Query_new)
        q2 == condition_code(self.conditions, 1, seq, q1)
        q3 == IF self.order_by # None THEN order_code(self.order_by[1], 1, q2) ELSE q2
    IN limit_code(self.limit, q3)

\* query.expand() and the run of its block, for a parse result r
expanded(r, seq) ==
    IF ~r.ok THEN [result |-> "syntax_error", ast |-> None, query |-> None]
    ELSE IF ~compiles(r.val)
    THEN [result |-> "compile_error", ast |-> Some(r.val), query |-> None]
    ELSE [result |-> "ok", ast |-> Some(r.val),
          query |-> Some(SqlQuery_expand(r.val, seq))]

\* qb_sql!(text) at a call site where `ids` holds seq
qb_sql(ts, seq) == expanded(parse_macro_input(ts), seq)

(***************************************************************************)
(* Arguments of the direct builder calls.                                  *)
(***************************************************************************)
FieldNames == {"DisplayName", "Balance"}

Orders == {"Asc", "Desc"}

\* WhereClause values as the macro builds them: one value unless the
\* operator is In (Condition::parse), any number for In
Clauses ==
    { [field |-> "DisplayName", operator |-> "Like", values |-> <<"John%">>],
      [field |-> "Balance", operator |-> "GreaterEqual", values |-> <<"1000">>],
      [field |-> "Id", operator |-> "In", values |-> <<"1", "2">>],
      [field |-> "Id", operator |-> "In", values |-> <<>>] }

\* (number, offset) pairs handed to limit
LimitArgs == { <<10, Some(5)>>, <<10, None>>, <<3, None>> }

\* no call of to_camel_case yet
NoIdent == [state |-> "none", name |-> ""]

\* replaced: the limit a limit call found in the builder
NoCall ==
    [op |-> "none", field |-> "", clause |-> None, order |-> "", limit |-> None,
     replaced |-> None]

Ops(q) == Len(q.fields) + Len(q.condition) + Len(q.order)

(***************************************************************************)
(* Actions: direct use of the builder.                                     *)
(***************************************************************************)
Init ==
    /\ query = None
    /\ call = NoCall
    /\ out = None
    /\ text = <<>>
    /\ ids = <<>>
    /\ ast = None
    /\ result = "none"
    /\ snake = ""
    /\ ident = NoIdent

New ==
    /\ query = None
    /\ query' = Some(Query_new)
    /\ call' = [NoCall EXCEPT !.op = "new"]
    /\ out' = None
    /\ UNCHANGED <<text, ids, ast, result, snake, ident>>

Field ==
    /\ query # None
    /\ Ops(query[1]) < MaxOps
    /\ \E f \in FieldNames :
        /\ query' = Some(Query_field(query[1], f))
        /\ call' = [NoCall EXCEPT !.op = "field", !.field = f]
    /\ out' = None
    /\ UNCHANGED <<text, ids, ast, result, snake, ident>>

Condition ==
    /\ query # None
    /\ Ops(query[1]) < MaxOps
    /\ \E c \in Clauses :
        /\ query' = Some(Query_condition(query[1], c))
        /\ call' = [NoCall EXCEPT !.op = "condition", !.clause = Some(c)]
    /\ out' = None
    /\ UNCHANGED <<text, ids, ast, result, snake, ident>>

Order ==
    /\ query # None
    /\ Ops(query[1]) < MaxOps
    /\ \E f \in FieldNames, o \in Orders :
        /\ query' = Some(Query_order(query[1], f, o))
        /\ call' = [NoCall EXCEPT !.op = "order", !.field = f, !.order = o]
    /\ out' = None
    /\ UNCHANGED <<text, ids, ast, result, snake, ident>>

Limit ==
    /\ query # None
    /\ \E a \in LimitArgs :
        /\ query' = Some(Query_limit(query[1], a[1], a[2]))
        /\ call' = [NoCall EXCEPT !.op = "limit",
                                  !.limit = Some([number |-> a[1], offset |-> a[2]]),
                                  !.replaced = query[1].limit]
    /\ out' = None
    /\ UNCHANGED <<text, ids, ast, result, snake, ident>>

\* a query_string that consumes the conditions it renders
QueryString_take ==
    /\ query # None
    /\ out' = Some(Query_query_string(query[1]))
    /\ call' = [NoCall EXCEPT !.op = "query_string"]
    /\ query' = Some([query[1] EXCEPT !.condition = <<>>])
    /\ UNCHANGED <<text, ids, ast, result, snake, ident>>

QueryString ==
    /\ query # None
    /\ out' = Some(Query_query_string(query[1]))
    /\ call' = [NoCall EXCEPT !.op = "query_string"]
    /\ UNCHANGED <<query, text, ids, ast, result, snake, ident>>

(***************************************************************************)
(* The queries handed to qb_sql!: a select list, the target type, a where  *)
(* part, and what follows the conditions.                                  *)
(***************************************************************************)
SelectTexts ==
    { <<"select", "*">>,
      <<"select", "display_name", ",", "balance">>,
      <<"select", "nickname">> }

ConditionTexts ==
    { <<"display_name", "like", "\"John%\"">>,
      <<"title", "=", "title1">>,
      <<"balance", "<", "2.5">>,
      <<"balance", ">", "7">>,
      <<"balance", "<", "=", "balance_min">>,
      <<"balance", ">", "=", "1000.0">>,
      <<"id", "in", "(", "1", ",", "2", ",", "3", ")">>,
      <<"title", "in", "(", "title1", ",", "title2", ",", "\"Dr\"", ")">>,
      <<"id", "in", "(", "ids", ")">>,
      <<"id", "in", "(", "1", ")">>,
      <<"id", "in", "(", ")">>,
      <<"nickname", "=", "1">> }

WhereTexts ==
    { <<>>, <<"where">> }
    \cup { <<"where">> \o c : c \in ConditionTexts }
    \cup { <<"where", "display_name", "like", "\"John%\"", "and">> \o c :
               c \in ConditionTexts }
    \cup { <<"where", "id", "in", "(", "ids", ")", "and">> \o c : c \in ConditionTexts }

OrderTexts ==
    { <<"order", "by", "display_name", "asc", ",", "balance", "desc">>,
      <<"order", "by", "balance">>,
      <<"order", "by", "nickname", "desc">> }

LimitTexts ==
    { <<"limit", "10">>, <<"limit", "10", "offset", "5">>,
      <<"limit", "3", "offset", "offset_val">> }

TailTexts ==
    { <<>> } \cup OrderTexts \cup LimitTexts
    \cup { o \o l : o \in OrderTexts, l \in LimitTexts }
    \cup { l \o o : o \in OrderTexts, l \in LimitTexts }
    \cup { o \o o : o \in OrderTexts }
    \cup { l \o l : l \in LimitTexts }

\* the query of tests::test_query_string_generation
Canonical ==
    << "select", "display_name", ",", "balance", "from", "Customer",
       "where", "display_name", "like", "\"John%\"",
       "and", "id", "in", "(", "1", ",", "2", ",", "3", ")",
       "and", "balance", ">", "=", "1000.0",
       "order", "by", "display_name", "asc", ",", "balance", "desc",
       "limit", "10", "offset", "5" >>

Texts ==
    { s \o <<"from", "Customer">> \o w \o t :
          s \in SelectTexts, w \in WhereTexts, t \in TailTexts }
    \cup { Canonical }

\* the values of the elements of `ids`
ElemVals == {1, 10}

Seqs == UNION { [1..n -> ElemVals] : n \in 0..MaxSeq }

Mentions(ts, t) == \E i \in 1..Len(ts) : ts[i] = t

\* one expansion and run of qb_sql! at a call site; `ids` is bound where the
\* query names it
QbSql ==
    /\ result = "none"
    /\ query = None
    /\ \E t \in Texts :
       \E s \in (IF Mentions(t, "ids") THEN Seqs ELSE {<<>>}) :
        LET r == qb_sql(t, s)
        IN /\ text' = t
           /\ ids' = s
           /\ ast' = r.ast
           /\ result' = r.result
           /\ query' = r.query
    /\ call' = [NoCall EXCEPT !.op = "qb_sql"]
    /\ out' = None
    /\ UNCHANGED <<snake, ident>>

MacroNext == QbSql \/ QueryString

MacroSpec == Init /\ [][MacroNext]_vars

(***************************************************************************)
(* The name normalizer on its own: to_camel_case applied to one            *)
(* identifier.  The callers hand it the text of a parsed syn::Ident, so    *)
(* the words are identifiers: a letter or '_' first, and not '_' alone.    *)
(***************************************************************************)
WordChars == {"a", "b", "_"}

\* the strings of length n over WordChars
RECURSIVE Strings(_)
Strings(n) ==
    IF n = 0 THEN {""} ELSE { w \o c : w \in Strings(n - 1), c \in WordChars }

\* the field names of the tests and of the documentation
NamedWords == {"display_name", "id", "balance", "a_b_c", "a__b"}

Words ==
    { w \in UNION { Strings(n) : n \in 1..MaxWord } \cup NamedWords :
        Ident_parse(<<w>>, 1).ok }

CamelInit ==
    /\ query = None
    /\ call = NoCall
    /\ out = None
    /\ text = <<>>
    /\ ids = <<>>
    /\ ast = None
    /\ result = "none"
    /\ snake \in Words
    /\ ident = NoIdent

\* to_camel_case(snake): the Ident it returns, or the panic of Ident::new
ToCamelCase ==
    /\ snake # ""
    /\ ident = NoIdent
    /\ ident' = IF to_camel_case(snake) = None
                THEN [state |-> "panic", name |-> ""]
                ELSE [state |-> "ok", name |-> to_camel_case(snake)[1]]
    /\ UNCHANGED <<query, call, out, text, ids, ast, result, snake>>

CamelNext == ToCamelCase

CamelSpec == CamelInit /\ [][CamelNext]_vars

Next == New \/ Field \/ Condition \/ Order \/ Limit \/ QueryString

Spec == Init /\ [][Next]_vars

(***************************************************************************)
(* Properties of the builder (Spec).                                       *)
(***************************************************************************)
\* C1: in every reachable builder state query_string() emits its sections in
\* the order select, from, where, order by, limit; select and from are always
\* there, and where, order by and LIMIT are there exactly when a condition,
\* an order term, a limit has been added.
C1_SectionOrder ==
    out # None =>
        LET s == out[1]
            q == query[1]
            pf == Find(s, " from ", 1)
            pw == Find(s, " where", 1)
            po == Find(s, " order by", 1)
            pl == Find(s, " LIMIT ", 1)
        IN /\ HasAt(s, "select ", 1) /\ Find(s, "select ", 2) = 0
           /\ pf > 1 /\ Find(s, " from ", pf + 1) = 0
           /\ (pw > 0) <=> (q.condition # <<>>)
           /\ (po > 0) <=> (q.order # <<>>)
           /\ (pl > 0) <=> (q.limit # None)
           /\ pw > 0 => Find(s, " where", pw + 1) = 0
           /\ po > 0 => Find(s, " order by", po + 1) = 0
           /\ pl > 0 => Find(s, " LIMIT ", pl + 1) = 0
           /\ pw > 0 => pf < pw
           /\ po > 0 => pf < po /\ pw < po
           /\ pl > 0 => pf < pl /\ pw < pl /\ po < pl

\* a rendering of a builder with fields, a condition, an order term and a limit
C1_Witness ==
    /\ out # None
    /\ query[1].fields # <<>> /\ query[1].condition # <<>>
    /\ query[1].order # <<>> /\ query[1].limit # None

\* C2: a Query starts with empty field, condition and order lists, and each
\* field, condition or order call appends its argument at the end of its own
\* list and leaves the other two lists and the limit as they were.
C2_AppendOnly ==
    [][ /\ call'.op = "new" =>
            /\ query'[1].fields = <<>>
            /\ query'[1].condition = <<>>
            /\ query'[1].order = <<>>
        /\ call'.op = "field" =>
            /\ query'[1].fields = query[1].fields \o <<call'.field>>
            /\ query'[1].condition = query[1].condition
            /\ query'[1].order = query[1].order
            /\ query'[1].limit = query[1].limit
        /\ call'.op = "condition" =>
            /\ query'[1].condition = query[1].condition \o call'.clause
            /\ query'[1].fields = query[1].fields
            /\ query'[1].order = query[1].order
            /\ query'[1].limit = query[1].limit
        /\ call'.op = "order" =>
            /\ query'[1].order =
                   query[1].order \o <<[field |-> call'.field, order |-> call'.order]>>
            /\ query'[1].fields = query[1].fields
            /\ query'[1].condition = query[1].condition
            /\ query'[1].limit = query[1].limit ]_vars

\* a field call that repeated the name already selected, on a builder that
\* holds a condition and a limit
C2_Witness ==
    /\ call.op = "field"
    /\ Len(query[1].fields) = 2 /\ query[1].fields[1] = query[1].fields[2]
    /\ query[1].condition # <<>>
    /\ query[1].limit # None

\* the values of an In condition, each in single quotes, joined by ", "
RECURSIVE QuotedList(_)
QuotedList(values) ==
    IF values = <<>> THEN ""
    ELSE IF Len(values) = 1 THEN "'" \o values[1] \o "'"
    ELSE "'" \o Head(values) \o "', " \o QuotedList(Tail(values))

OperatorSymbol(operator) ==
    CASE operator = "Equal" -> "="
      [] operator = "Less" -> "<"
      [] operator = "Greater" -> ">"
      [] operator = "LessEqual" -> "<="
      [] operator = "GreaterEqual" -> ">="
      [] operator = "Like" -> "LIKE"

RenderedCondition(c) ==
    IF c.operator = "In"
    THEN " " \o c.field \o " IN (" \o QuotedList(c.values) \o ")"
    ELSE " " \o c.field \o " " \o OperatorSymbol(c.operator) \o " '" \o c.values[1] \o "'"

RECURSIVE RenderedConditions(_)
RenderedConditions(cs) ==
    IF Len(cs) = 1 THEN RenderedCondition(cs[1])
    ELSE RenderedConditions(SubSeq(cs, 1, Len(cs) - 1))
             \o " and" \o RenderedCondition(cs[Len(cs)])

\* what follows a section is the end of the string or a later section
EndsSection(s, p) ==
    p = Len(s) + 1 \/ HasAt(s, " order by", p) \/ HasAt(s, " LIMIT ", p)

\* C3: the conditions are rendered after " where" in insertion order, each
\* after the first behind " and"; an In condition as " <Field> IN ('v1', 'v2')"
\* and any other as " <Field> <OP> '<value>'".
C3_ConditionRendering ==
    out # None /\ query[1].condition # <<>> =>
        LET s == out[1]
            w == " where" \o RenderedConditions(query[1].condition)
            pw == Find(s, " where", 1)
        IN HasAt(s, w, pw) /\ EndsSection(s, pw + Len(w))

\* a rendering of two conditions, one a two-valued In and one not an In
C3_Witness ==
    /\ out # None
    /\ Len(query[1].condition) >= 2
    /\ \E i, j \in 1..Len(query[1].condition) :
        /\ query[1].condition[i].operator = "In"
        /\ Len(query[1].condition[i].values) = 2
        /\ query[1].condition[j].operator # "In"

RenderedOrder(o) == " " \o o.field \o " " \o (IF o.order = "Asc" THEN "ASC" ELSE "DESC")

RECURSIVE RenderedOrders(_)
RenderedOrders(os) ==
    IF Len(os) = 1 THEN RenderedOrder(os[1])
    ELSE RenderedOrder(Head(os)) \o "," \o RenderedOrders(Tail(os))

\* C4: with an order term, query_string() emits " order by" and the terms in
\* insertion order, each " <Field> <ASC|DESC>", with "," alone between two
\* terms: (DisplayName, Asc), (Balance, Desc) give
\* " order by DisplayName ASC, Balance DESC".
C4_OrderRendering ==
    out # None /\ query[1].order # <<>> =>
        LET s == out[1]
            o == " order by" \o RenderedOrders(query[1].order)
            po == Find(s, " order by", 1)
        IN /\ HasAt(s, o, po)
           /\ po + Len(o) = Len(s) + 1 \/ HasAt(s, " LIMIT ", po + Len(o))
           /\ query[1].order = << [field |-> "DisplayName", order |-> "Asc"],
                                  [field |-> "Balance", order |-> "Desc"] >>
                  => o = " order by DisplayName ASC, Balance DESC"

\* a rendering of the terms (DisplayName, Asc), (Balance, Desc)
C4_Witness ==
    /\ out # None
    /\ query[1].order = << [field |-> "DisplayName", order |-> "Asc"],
                           [field |-> "Balance", order |-> "Desc"] >>

RenderedLimit(l) ==
    " LIMIT " \o u32_to_string(l.number)
      \o (IF l.offset = None THEN "" ELSE " OFFSET " \o u32_to_string(l.offset[1]))

\* s ends with the fragment of l and has no other LIMIT; it has an OFFSET
\* only if l has one
OnlyLimit(s, l) ==
    LET p == Find(s, " LIMIT ", 1)
    IN /\ p > 0
       /\ SubSeq(s, p, Len(s)) = RenderedLimit(l)
       /\ Find(s, " LIMIT ", p + 1) = 0
       /\ l.offset = None => ~Contains(s, "OFFSET")

\* C12: a limit call replaces the whole limit set before it and leaves
\* fields, conditions and order terms as they were; the other calls keep the
\* limit, so query_string() renders the last limit call alone: " LIMIT n"
\* and, only if that call gave an offset, " OFFSET o".
C12_LimitReplaces ==
    [][ /\ call'.op = "limit" =>
            /\ query'[1].limit = call'.limit
            /\ query'[1].fields = query[1].fields
            /\ query'[1].condition = query[1].condition
            /\ query'[1].order = query[1].order
        /\ call'.op \in {"field", "condition", "order", "query_string"} =>
            query'[1].limit = query[1].limit
        /\ (call'.op = "query_string" /\ query[1].limit # None) =>
            OnlyLimit(out'[1], query[1].limit[1])
        /\ (call'.op = "query_string" /\ query[1].limit = None) =>
            ~Contains(out'[1], "LIMIT") ]_vars

\* a limit(10, None) on a builder that held limit(10, Some(5)) and a field,
\* a condition and an order term
C12_Witness ==
    /\ call.op = "limit"
    /\ call.replaced = Some([number |-> 10, offset |-> Some(5)])
    /\ query[1].limit = Some([number |-> 10, offset |-> None])
    /\ query[1].fields # <<>>
    /\ query[1].condition # <<>>
    /\ query[1].order # <<>>

(***************************************************************************)
(* Properties of the macro (MacroSpec).                                    *)
(***************************************************************************)
\* C5 as stated: the canonical query renders with "BalanceDESC".
C5_AsStated ==
    text = Canonical /\ out # None =>
        out[1] = "select DisplayName, Balance from Customer where DisplayName LIKE 'John%' and Id IN ('1', '2', '3') and Balance >= '1000' order by DisplayName ASC, BalanceDESC LIMIT 10 OFFSET 5"

\* C5: the canonical query, parsed, translated and rendered, is exactly the
\* string of tests::test_query_string_generation, "Balance DESC" with a space.
C5_CanonicalRendering ==
    text = Canonical /\ out # None =>
        out[1] = "select DisplayName, Balance from Customer where DisplayName LIKE 'John%' and Id IN ('1', '2', '3') and Balance >= '1000' order by DisplayName ASC, Balance DESC LIMIT 10 OFFSET 5"

\* the canonical query, built and rendered
C5_Witness == text = Canonical /\ result = "ok" /\ out # None

\* the positions of the tokens "where" and "and" from position i on
RECURSIVE ConditionStarts(_, _)
ConditionStarts(ts, i) ==
    IF i > Len(ts) THEN <<>>
    ELSE (IF ts[i] \in {"where", "and"} THEN <<i + 1>> ELSE <<>>)
             \o ConditionStarts(ts, i + 1)

\* no "where", or "where" with the end, an order by or a limit right after it
NoCondition(ts) ==
    \/ ~Mentions(ts, "where")
    \/ Tok(ts, Find(ts, <<"where">>, 1) + 1) \in {"", "order", "limit"}

\* C7: a parsed query has at least one condition and holds the conditions in
\* source order; a text without "where", or with no condition after it, is a
\* syntax error and yields no AST.
C7_WhereRequired ==
    /\ ast # None =>
        LET starts == ConditionStarts(text, 1)
            cs == ast[1].conditions
        IN /\ cs # <<>>
           /\ Len(cs) = Len(starts)
           /\ \A i \in 1..Len(cs) : cs[i].field = text[starts[i]]
    /\ result # "none" /\ NoCondition(text) =>
        result = "syntax_error" /\ ast = None /\ query = None

\* a text whose "where" has no condition behind it, rejected
C7_Witness ==
    /\ Mentions(text, "where")
    /\ NoCondition(text)
    /\ result = "syntax_error"

\* the text up to the order by and limit clauses
ConditionsPart(ts) ==
    LET po == Find(ts, <<"order">>, 1)
        pl == Find(ts, <<"limit">>, 1)
        p == IF po = 0 THEN pl ELSE IF pl = 0 THEN po ELSE IF po < pl THEN po ELSE pl
    IN IF p = 0 THEN ts ELSE SubSeq(ts, 1, p - 1)

Twice(ts, t) == Find(ts, <<t>>, Find(ts, <<t>>, 1) + 1) > 0

\* C8: order by and limit are optional, each at most once, order by first: a
\* limit clause followed by an order by clause is a syntax error, and the
\* same clauses with order by first parse.
C8_ClauseOrder ==
    result # "none" /\ parse_macro_input(ConditionsPart(text)).ok =>
        LET po == Find(text, <<"order">>, 1)
            pl == Find(text, <<"limit">>, 1)
        IN /\ Twice(text, "order") \/ Twice(text, "limit") => result = "syntax_error"
           /\ po > 0 /\ pl > 0 /\ pl < po =>
                  /\ result = "syntax_error" /\ ast = None
                  /\ ~Twice(text, "order") /\ ~Twice(text, "limit") =>
                         parse_macro_input(ConditionsPart(text) \o SubSeq(text, po, Len(text))
                                              \o SubSeq(text, pl, po - 1)).ok
           /\ ~Twice(text, "order") /\ ~Twice(text, "limit") /\ (po = 0 \/ pl = 0 \/ po < pl)
                  => ast # None

\* a query with valid conditions, a limit clause and then an order by clause
C8_Witness ==
    /\ result = "syntax_error"
    /\ parse_macro_input(ConditionsPart(text)).ok
    /\ Find(text, <<"limit">>, 1) > 0
    /\ Find(text, <<"order">>, 1) > Find(text, <<"limit">>, 1)
    /\ ~Twice(text, "order") /\ ~Twice(text, "limit")

\* the identifiers a parsed query references
Referenced(a) ==
    { a.fields.names[i] : i \in 1..Len(a.fields.names) }
    \cup { a.conditions[i].field : i \in 1..Len(a.conditions) }
    \cup (IF a.order_by = None THEN {}
          ELSE { a.order_by[1][i].field : i \in 1..Len(a.order_by[1]) })

\* C9: when a selected field, a condition field or an order field is not an
\* attribute of the target type, construction fails and there is no Query,
\* built or partly built.
C9_UnknownField ==
    ast # None /\ (\E f \in Referenced(ast[1]) : f \notin Attributes(ast[1].item_type)) =>
        result = "compile_error" /\ query = None /\ out = None

\* a query whose only unknown identifier is an order field
C9_Witness ==
    /\ ast # None
    /\ result = "compile_error"
    /\ ast[1].order_by # None
    /\ \E i \in 1..Len(ast[1].order_by[1]) :
           ast[1].order_by[1][i].field \notin Attributes(ast[1].item_type)
    /\ \A i \in 1..Len(ast[1].fields.names) :
           ast[1].fields.names[i] \in Attributes(ast[1].item_type)
    /\ \A i \in 1..Len(ast[1].conditions) :
           ast[1].conditions[i].field \in Attributes(ast[1].item_type)

\* the literals of a sequence, separated by commas
RECURSIVE ExplicitList(_)
ExplicitList(seq) ==
    IF seq = <<>> THEN <<>>
    ELSE IF Len(seq) = 1 THEN <<u32_to_string(seq[1])>>
    ELSE <<u32_to_string(Head(seq)), ",">> \o ExplicitList(Tail(seq))

\* the text with the variable `ids` replaced by the list of its elements
RECURSIVE ExplicitText(_, _)
ExplicitText(ts, seq) ==
    IF ts = <<>> THEN <<>>
    ELSE (IF Head(ts) = "ids" THEN ExplicitList(seq) ELSE <<Head(ts)>>)
             \o ExplicitText(Tail(ts), seq)

SameAsExplicit ==
    LET e == qb_sql(ExplicitText(text, ids), <<>>)
    IN /\ e.result = result
       /\ e.query = query
       /\ out # None => out[1] = Query_query_string(e.query[1])

\* C10 as stated: for every sequence the spread form gives the condition and
\* the rendering of the explicit list of its elements.
C10_AsStated == result # "none" /\ Mentions(text, "ids") => SameAsExplicit

\* C10: for a sequence of two or more elements the spread form gives the
\* value list and the rendering of the explicit list of its elements.
C10_SpreadEqualsList ==
    result # "none" /\ Mentions(text, "ids") /\ Len(ids) >= 2 =>
        /\ SameAsExplicit
        /\ text = <<"select", "*", "from", "Customer", "where", "id", "in", "(", "ids", ")">>
           /\ ids = <<1, 10>>
               => query[1].condition[1].values = <<"1", "10">>

\* a spread over two different elements, built and rendered
C10_Witness ==
    /\ Mentions(text, "ids")
    /\ Len(ids) >= 2 /\ ids[1] # ids[2]
    /\ result = "ok"
    /\ out # None

(***************************************************************************)
(* Properties of the name normalizer (CamelSpec).                          *)
(***************************************************************************)
\* the characters of s from position i on, each '_' dropped and each
\* character that starts a segment uppercased
RECURSIVE SegmentsUppercased(_, _)
SegmentsUppercased(s, i) ==
    IF i > Len(s) THEN ""
    ELSE (IF Char(s, i) = "_" THEN ""
          ELSE IF i = 1 \/ Char(s, i - 1) = "_" THEN to_uppercase(Char(s, i))
          ELSE Char(s, i))
         \o SegmentsUppercased(s, i + 1)

\* C11: for every lowercase-with-underscore identifier the name normalizer
\* returns the concatenation of its '_'-separated segments, the first
\* character of each uppercased, the others unchanged, an empty segment
\* contributing nothing, and it never fails.
C11_TotalNormalizer ==
    ident # NoIdent =>
        ident = [state |-> "ok", name |-> SegmentsUppercased(snake, 1)]

====
